---- MODULE Spec2Model ----
(***************************************************************************)
(* kernel-config (src/kernel-config/main.py): an interactive checklist of  *)
(* kernel boot parameters, the GRUB default-file writer and clearer, and   *)
(* the command-line entry point.                                           *)
(*                                                                         *)
(* Text is modelled as a sequence of tokens.  A token is a piece of text   *)
(* that holds no line break, except the token NL, which is the line feed.  *)
(* Concatenation of text is concatenation of sequences; str.startswith of  *)
(* the GRUB prefix is "the first token is PFX".  Line terminators are      *)
(* limited to the line feed.                                               *)
(*                                                                         *)
(* Each call to the operating system (cp, open/read, open/write,           *)
(* update-grub) either completes or raises without effect; which of the    *)
(* two happens is a nondeterministic choice of the environment.            *)
(***************************************************************************)
EXTENDS Integers, Sequences, FiniteSets, TLC

VARIABLES
    argv,            \* sys.argv: <<program, action?, core_range?>>
    euid,            \* os.geteuid()
    height,          \* stdscr.getmaxyx()[0], fixed during a run
    pc,              \* position of the process
    core_range,      \* KernelConfigMenu.core_range
    selected,        \* KernelConfigMenu.selected
    current,         \* KernelConfigMenu.current
    offset,          \* KernelConfigMenu.offset
    apply_config,    \* main: apply_config, the value handle_input returned
    selected_params, \* main: selected_params
    params,          \* update_grub_config: params
    lines,           \* update_grub_config / clear_grub_config: lines
    ret,             \* value returned by update_grub_config / clear_grub_config
    grub,            \* contents of /etc/default/grub
    backup_exists,   \* whether /etc/default/grub.backup exists
    backup,          \* contents of /etc/default/grub.backup
    printed,         \* the print() calls made so far, in order
    exit_status,     \* process exit status, -1 while running
    root_checks,     \* number of os.geteuid() checks made
    grub_writes,     \* number of completed writes of /etc/default/grub
    backup_writes,   \* number of completed writes of the .backup file
    regen_runs,      \* number of invocations of update-grub
    grub_pre         \* contents of /etc/default/grub when the run started

vars == <<argv, euid, height, pc, core_range, selected, current, offset,
          apply_config, selected_params, params, lines, ret, grub,
          backup_exists, backup, printed, exit_status, root_checks,
          grub_writes, backup_writes, regen_runs, grub_pre>>

(***************************************************************************)
(* Bounds of the model.                                                    *)
(***************************************************************************)
\* largest terminal height explored
MaxHeight == 8
\* longest configuration file explored, in tokens
MaxFileLen == 5

(***************************************************************************)
(* Text tokens.                                                            *)
(***************************************************************************)
NL == "\n"
DQ == "\""
SP == " "
CORES == "{CORES}"
PFX == "GRUB_CMDLINE_LINUX_DEFAULT="

\* rows of header, footer and info panel: menu_height = height - 6
ChromeRows == 6

KERNEL_PARAMS ==
    [isolcpus          |-> [param |-> <<"isolcpus=", CORES>>],
     nohz_full         |-> [param |-> <<"nohz_full=", CORES>>],
     rcu_nocbs         |-> [param |-> <<"rcu_nocbs=", CORES>>],
     housekeeping      |-> [param |-> <<"housekeeping=cpus:0">>],
     intel_pstate      |-> [param |-> <<"intel_pstate=disable">>],
     nosmt             |-> [param |-> <<"nosmt">>],
     intel_idle_cstate |-> [param |-> <<"intel_idle.max_cstate=0">>],
     processor_cstate  |-> [param |-> <<"processor.max_cstate=0">>],
     mitigations       |-> [param |-> <<"mitigations=off">>],
     intel_iommu       |-> [param |-> <<"intel_iommu=off">>],
     iommu             |-> [param |-> <<"iommu=off">>]]

PARAM_ORDER ==
    <<"isolcpus", "nohz_full", "rcu_nocbs", "housekeeping", "intel_pstate",
      "nosmt", "intel_idle_cstate", "processor_cstate", "mitigations",
      "intel_iommu", "iommu">>

\* len(PARAM_ORDER): the index of the Apply row
N == Len(PARAM_ORDER)

ParamKeys == {PARAM_ORDER[i] : i \in 1..N}

\* core_range when sys.argv has no third element
DefaultCoreRange == <<"1-12">>

(***************************************************************************)
(* String helpers.                                                         *)
(***************************************************************************)
Max(a, b) == IF a >= b THEN a ELSE b
Min(a, b) == IF a <= b THEN a ELSE b

\* str.replace(old, new) on a text in which old is the token `old`
RECURSIVE Replace(_, _, _)
Replace(s, old, new) ==
    IF s = <<>> THEN <<>>
    ELSE (IF Head(s) = old THEN new ELSE <<Head(s)>>) \o Replace(Tail(s), old, new)

\* sep.join(list), accumulated left to right
RECURSIVE JoinFrom(_, _, _, _)
JoinFrom(list, sep, i, acc) ==
    IF i > Len(list) THEN acc
    ELSE JoinFrom(list, sep, i + 1,
                  IF i = 1 THEN list[i] ELSE acc \o sep \o list[i])
Join(list, sep) == JoinFrom(list, sep, 1, <<>>)

\* the loop of get_selected_params: the list params after keys i..N
RECURSIVE CollectParams(_, _, _, _)
CollectParams(sel, cr, i, acc) ==
    IF i > N THEN acc
    ELSE CollectParams(sel, cr, i + 1,
            IF sel[PARAM_ORDER[i]]
            THEN Append(acc, Replace(KERNEL_PARAMS[PARAM_ORDER[i]].param, CORES, cr))
            ELSE acc)

\* get_selected_params without the test of self.selected[key]
get_selected_params_all(sel, cr) ==
    Join(CollectParams([k \in ParamKeys |-> TRUE], cr, 1, <<>>), <<SP>>)

get_selected_params(sel, cr) == Join(CollectParams(sel, cr, 1, <<>>), <<SP>>)

\* a test that takes every string, the empty one too, as true
Truthy_always(s) == TRUE

\* truth value of a Python str: non-empty
Truthy(s) == s # <<>>

(***************************************************************************)
(* The configuration file as text and as lines.                            *)
(***************************************************************************)
\* f.readlines(): the text cut after every line feed, terminators kept;
\* a last line without terminator is a line too
RECURSIVE SplitLines(_, _, _)
SplitLines(s, i, cur) ==
    IF i > Len(s) THEN (IF cur = <<>> THEN <<>> ELSE <<cur>>)
    ELSE IF s[i] = NL THEN <<Append(cur, NL)>> \o SplitLines(s, i + 1, <<>>)
    ELSE SplitLines(s, i + 1, Append(cur, s[i]))
readlines(s) == SplitLines(s, 1, <<>>)

\* f.writelines(lines): the lines one after the other, nothing added
RECURSIVE writelines(_)
writelines(ls) == IF ls = <<>> THEN <<>> ELSE Head(ls) \o writelines(Tail(ls))

\* line.startswith("GRUB_CMDLINE_LINUX_DEFAULT=")
StartsWithPrefix(line) == Len(line) > 0 /\ line[1] = PFX

\* the for loop with break: index of the first line with the prefix, from i
\* on; 0 when the loop ends without a match
RECURSIVE FirstPrefixFrom(_, _)
FirstPrefixFrom(ls, i) ==
    IF i > Len(ls) THEN 0
    ELSE IF StartsWithPrefix(ls[i]) THEN i
    ELSE FirstPrefixFrom(ls, i + 1)

\* f'GRUB_CMDLINE_LINUX_DEFAULT="{params}"\n'
AssignLine(p) == <<PFX, DQ>> \o p \o <<DQ, NL>>

\* update_grub_config, lines 197-205: replace the first match, else append
update_lines(ls, p) ==
    LET i == FirstPrefixFrom(ls, 1)
    IN  IF i > 0 THEN [ls EXCEPT ![i] = AssignLine(p)]
        ELSE Append(ls, AssignLine(p))

\* a clearer that appends the assignment when no line has the prefix
clear_lines_append(ls) == update_lines(ls, <<>>)

\* a clearer that keeps nothing but the assignment line
clear_lines_only(ls) ==
    LET i == FirstPrefixFrom(ls, 1)
    IN  IF i > 0 THEN <<AssignLine(<<>>)>> ELSE ls

\* clear_grub_config, lines 228-231: replace the first match, no append
clear_lines(ls) ==
    LET i == FirstPrefixFrom(ls, 1)
    IN  IF i > 0 THEN [ls EXCEPT ![i] = AssignLine(<<>>)]
        ELSE ls

(***************************************************************************)
(* Process helpers.                                                        *)
(***************************************************************************)
\* print(msg)
Say(msg) == printed' = Append(printed, msg)

\* sys.exit(status), or main() returning (status 0)
Exit(status) == pc' = "exit" /\ exit_status' = status

\* menu_height = height - 6
MenuHeight == height - ChromeRows

\* the action argument, sys.argv[1]
ActionArg == argv[2]

(***************************************************************************)
(* Inputs: command lines, terminals, files.                                *)
(***************************************************************************)
\* a piece of text of the configuration file that is not the prefix
TXT == "#text"

FileTokens == {PFX, TXT, NL}

\* every configuration file of at most MaxFileLen tokens
Files == UNION {[1..n -> FileTokens] : n \in 0..MaxFileLen}

\* the files the interactive runs start from: one with an assignment line
\* between other lines, one without assignment and without final line feed
EnableFiles == {<<TXT, NL, PFX, TXT, NL, PFX, NL>>, <<TXT>>}

\* a .backup file left by an earlier run
OldBackup == <<"old", NL>>

\* core ranges given on the command line: the empty string, and one that
\* holds a space and the placeholder text itself
GivenCoreRanges == {<<>>, <<"2", SP, CORES>>}

Argvs ==
    {<<"main.py">>, <<"main.py", "enable">>, <<"main.py", "disable">>,
     <<"main.py", "bogus">>}
    \cup {<<"main.py", a, cr>> : a \in {"enable", "disable"}, cr \in GivenCoreRanges}

\* terminal heights: from no menu row at all up to MaxHeight
Heights == ChromeRows..MaxHeight

InputKeys == {"KEY_UP", "KEY_DOWN", " ", "\n", "KEY_ENTER", "q", "Q", "other"}

\* parameter strings handed to update_grub_config when it is run alone
WriterParams ==
    {<<>>, <<"nosmt">>,
     get_selected_params([k \in ParamKeys |-> TRUE], DefaultCoreRange)}

(***************************************************************************)
(* Initial states.                                                         *)
(***************************************************************************)
\* what is the same at the start of every run; the menu fields hold the
\* values KernelConfigMenu.__init__ gives them
InitCommon ==
    /\ selected = [k \in ParamKeys |-> TRUE]
    /\ current = 0
    /\ offset = 0
    /\ core_range = DefaultCoreRange
    /\ apply_config = FALSE
    /\ selected_params = <<>>
    /\ lines = <<>>
    /\ ret = FALSE
    /\ printed = <<>>
    /\ exit_status = -1
    /\ grub_writes = 0
    /\ backup_writes = 0
    /\ regen_runs = 0
    /\ grub_pre = grub

\* no .backup file yet, or the one an earlier run left
InitBackup ==
    \/ backup_exists = FALSE /\ backup = <<>>
    \/ backup_exists = TRUE /\ backup = OldBackup

\* the terminal and files an interactive run starts with: every core range
\* on the tallest terminal, every terminal height with the default core
\* range, and every file of EnableFiles on the tallest terminal; an earlier
\* backup exists
InitEnable ==
    /\ backup_exists = TRUE
    /\ backup = OldBackup
    /\ \/ /\ height = MaxHeight
          /\ grub = <<TXT, NL, PFX, TXT, NL, PFX, NL>>
       \/ /\ Len(argv) = 2
          /\ height \in Heights
          /\ grub = <<TXT, NL, PFX, TXT, NL, PFX, NL>>
       \/ /\ Len(argv) = 2
          /\ height = MaxHeight
          /\ grub \in EnableFiles

\* the process starts at main()
Init ==
    /\ pc = "main"
    /\ argv \in Argvs
    /\ euid \in {0, 1000}
    /\ IF Len(argv) >= 2 /\ argv[2] = "enable"
       THEN InitEnable
       ELSE height = MaxHeight /\ grub \in Files /\ InitBackup
    /\ params = <<>>
    /\ root_checks = 0
    /\ InitCommon

(***************************************************************************)
(* main(): argument check, privilege gate, dispatch.                       *)
(***************************************************************************)
menu_vars == <<core_range, selected, current, offset>>
file_vars == <<grub, backup_exists, backup, grub_writes, backup_writes, regen_runs>>
call_vars == <<params, lines, ret>>
env_vars == <<argv, euid, height, grub_pre>>

\* lines 246-248: if len(sys.argv) < 2: usage, exit 1
main_args ==
    /\ pc = "main"
    /\ IF Len(argv) < 2
       THEN Say("usage") /\ Exit(1)
       ELSE pc' = "check_root" /\ UNCHANGED <<printed, exit_status>>
    /\ UNCHANGED <<menu_vars, file_vars, call_vars, env_vars, apply_config,
                   selected_params, root_checks>>

\* a privilege gate that reports the error and goes on
check_root_noexit ==
    /\ pc = "check_root"
    /\ root_checks' = root_checks + 1
    /\ IF euid # 0 THEN Say("root_error") ELSE UNCHANGED printed
    /\ pc' = "dispatch"
    /\ UNCHANGED <<menu_vars, file_vars, call_vars, env_vars, apply_config,
                   selected_params, exit_status>>

\* lines 180-183 (called at line 250)
check_root ==
    /\ pc = "check_root"
    /\ root_checks' = root_checks + 1
    /\ IF euid # 0
       THEN Say("root_error") /\ Exit(1)
       ELSE pc' = "dispatch" /\ UNCHANGED <<printed, exit_status>>
    /\ UNCHANGED <<menu_vars, file_vars, call_vars, env_vars, apply_config,
                   selected_params>>

\* lines 252-256, 280, 286-288: read the arguments and branch on the action;
\* enable constructs the menu (lines 77-81)
main_dispatch ==
    /\ pc = "dispatch"
    /\ core_range' = IF Len(argv) > 2 THEN argv[3] ELSE DefaultCoreRange
    /\ IF ActionArg = "enable"
       THEN /\ selected' = [k \in ParamKeys |-> TRUE]
            /\ current' = 0
            /\ offset' = 0
            /\ pc' = "menu"
            /\ UNCHANGED <<printed, exit_status>>
       ELSE IF ActionArg = "disable"
       THEN /\ pc' = "c_read"
            /\ UNCHANGED <<selected, current, offset, printed, exit_status>>
       ELSE /\ Say("invalid_action")
            /\ Exit(1)
            /\ UNCHANGED <<selected, current, offset>>
    /\ UNCHANGED <<file_vars, call_vars, env_vars, apply_config, selected_params,
                   root_checks>>

(***************************************************************************)
(* KernelConfigMenu.handle_input: one pass of the loop per key.            *)
(* draw_menu reads the state and writes to the screen only.                *)
(***************************************************************************)
\* lines 148-149: the offset after KEY_UP moved the focus to cur
ScrollUp(cur, off) == IF cur < off THEN cur ELSE off

\* the scroll test off by one: > where the code has >=
ScrollDown_late(cur, off, mh) == IF cur > off + mh THEN cur - mh + 1 ELSE off

\* lines 156-157: the offset after KEY_DOWN moved the focus to cur
ScrollDown(cur, off, mh) == IF cur >= off + mh THEN cur - mh + 1 ELSE off

\* Enter that applies from every row
EnterApplies_any(cur) == TRUE

\* line 165: Enter applies on the Apply row only
EnterApplies(cur) == cur = N

\* line 159: Space toggles on a parameter row only
SpaceToggles(cur) == cur < N

handle_input(key) ==
    /\ pc = "menu"
    /\ IF key = "KEY_UP"
       THEN /\ current' = Max(0, current - 1)
            /\ offset' = ScrollUp(Max(0, current - 1), offset)
            /\ UNCHANGED <<selected, pc, apply_config>>
       ELSE IF key = "KEY_DOWN"
       THEN /\ current' = Min(N, current + 1)
            /\ offset' = ScrollDown(Min(N, current + 1), offset, MenuHeight)
            /\ UNCHANGED <<selected, pc, apply_config>>
       ELSE IF key = " " /\ SpaceToggles(current)
       THEN /\ selected' = [selected EXCEPT ![PARAM_ORDER[current + 1]] = ~@]
            /\ UNCHANGED <<current, offset, pc, apply_config>>
       ELSE IF key \in {"\n", "KEY_ENTER"}
       THEN IF EnterApplies(current)
            THEN /\ apply_config' = TRUE
                 /\ pc' = "menu_return"
                 /\ UNCHANGED <<selected, current, offset>>
            ELSE UNCHANGED <<selected, current, offset, pc, apply_config>>
       ELSE IF key \in {"q", "Q"}
       THEN /\ apply_config' = FALSE
            /\ pc' = "menu_return"
            /\ UNCHANGED <<selected, current, offset>>
       ELSE UNCHANGED <<selected, current, offset, pc, apply_config>>
    /\ UNCHANGED <<core_range, file_vars, call_vars, env_vars, selected_params,
                   printed, exit_status, root_checks>>

\* lines 276-278: KeyboardInterrupt while the menu waits for a key
menu_interrupt ==
    /\ pc = "menu"
    /\ Say("cancelled_interrupt")
    /\ Exit(0)
    /\ UNCHANGED <<menu_vars, file_vars, call_vars, env_vars, apply_config,
                   selected_params, root_checks>>

\* lines 261-262, 273-274: after handle_input returned
main_after_menu ==
    /\ pc = "menu_return"
    /\ IF apply_config
       THEN /\ selected_params' = get_selected_params(selected, core_range)
            /\ pc' = "got_params"
            /\ UNCHANGED <<printed, exit_status>>
       ELSE /\ Say("cancelled")
            /\ Exit(0)
            /\ UNCHANGED selected_params
    /\ UNCHANGED <<menu_vars, file_vars, call_vars, env_vars, apply_config,
                   root_checks>>

\* lines 264-266, 271-272: write when the string is non-empty
main_apply ==
    /\ pc = "got_params"
    /\ IF Truthy(selected_params)
       THEN /\ Say("applying")
            /\ params' = selected_params
            /\ pc' = "w_backup"
            /\ UNCHANGED exit_status
       ELSE /\ Say("no_params")
            /\ Exit(0)
            /\ UNCHANGED params
    /\ UNCHANGED <<menu_vars, file_vars, lines, ret, env_vars, apply_config,
                   selected_params, root_checks>>

(***************************************************************************)
(* update_grub_config(params), lines 185-217.                              *)
(***************************************************************************)
\* lines 215-217: except Exception: print the error, return False
update_raise ==
    /\ Say("error_updating")
    /\ ret' = FALSE
    /\ pc' = "w_return"

\* the copy run without check=True: a failed copy goes unnoticed
update_backup_unchecked ==
    /\ pc = "w_backup"
    /\ \E ok \in BOOLEAN :
         IF ok
         THEN /\ backup' = grub
              /\ backup_exists' = TRUE
              /\ backup_writes' = backup_writes + 1
         ELSE UNCHANGED <<backup, backup_exists, backup_writes>>
    /\ pc' = "w_read"
    /\ UNCHANGED <<menu_vars, env_vars, grub, grub_writes, regen_runs, params,
                   lines, ret, printed, apply_config, selected_params,
                   exit_status, root_checks>>

\* line 190: subprocess.run(["cp", grub, grub.backup], check=True)
update_backup ==
    /\ pc = "w_backup"
    /\ \E ok \in BOOLEAN :
         IF ok
         THEN /\ backup' = grub
              /\ backup_exists' = TRUE
              /\ backup_writes' = backup_writes + 1
              /\ pc' = "w_read"
              /\ UNCHANGED <<printed, ret>>
         ELSE /\ update_raise
              /\ UNCHANGED <<backup, backup_exists, backup_writes>>
    /\ UNCHANGED <<menu_vars, env_vars, grub, grub_writes, regen_runs, params,
                   lines, apply_config, selected_params, exit_status, root_checks>>

\* lines 193-194: lines = f.readlines()
update_read ==
    /\ pc = "w_read"
    /\ \E ok \in BOOLEAN :
         IF ok
         THEN /\ lines' = readlines(grub)
              /\ pc' = "w_patch"
              /\ UNCHANGED <<printed, ret>>
         ELSE /\ update_raise
              /\ UNCHANGED lines
    /\ UNCHANGED <<menu_vars, env_vars, file_vars, params, apply_config,
                   selected_params, exit_status, root_checks>>

\* lines 197-205: replace the first assignment line or append one
update_patch ==
    /\ pc = "w_patch"
    /\ lines' = update_lines(lines, params)
    /\ pc' = "w_write"
    /\ UNCHANGED <<menu_vars, env_vars, file_vars, params, ret, apply_config,
                   selected_params, printed, exit_status, root_checks>>

\* lines 208-209: f.writelines(lines)
update_write ==
    /\ pc = "w_write"
    /\ \E ok \in BOOLEAN :
         IF ok
         THEN /\ grub' = writelines(lines)
              /\ grub_writes' = grub_writes + 1
              /\ pc' = "w_regen"
              /\ UNCHANGED <<printed, ret>>
         ELSE /\ update_raise
              /\ UNCHANGED <<grub, grub_writes>>
    /\ UNCHANGED <<menu_vars, env_vars, backup, backup_exists, backup_writes,
                   regen_runs, params, lines, apply_config, selected_params,
                   exit_status, root_checks>>

\* lines 212-214: subprocess.run(["update-grub"], check=True); return True
update_regen ==
    /\ pc = "w_regen"
    /\ regen_runs' = regen_runs + 1
    /\ \E ok \in BOOLEAN :
         IF ok
         THEN /\ ret' = TRUE
              /\ pc' = "w_return"
              /\ UNCHANGED printed
         ELSE update_raise
    /\ UNCHANGED <<menu_vars, env_vars, grub, backup, backup_exists, grub_writes,
                   backup_writes, params, lines, apply_config, selected_params,
                   exit_status, root_checks>>

\* lines 266-270: report the Writer's result
main_after_update ==
    /\ pc = "w_return"
    /\ IF ret
       THEN Say("installed") /\ Exit(0)
       ELSE Say("failed_update") /\ Exit(1)
    /\ UNCHANGED <<menu_vars, file_vars, call_vars, env_vars, apply_config,
                   selected_params, root_checks>>

(***************************************************************************)
(* clear_grub_config(), lines 219-243.                                     *)
(***************************************************************************)
\* lines 241-243: except Exception: print the error, return False
clear_raise ==
    /\ Say("error_clearing")
    /\ ret' = FALSE
    /\ pc' = "c_return"

\* lines 224-225: lines = f.readlines()
clear_read ==
    /\ pc = "c_read"
    /\ \E ok \in BOOLEAN :
         IF ok
         THEN /\ lines' = readlines(grub)
              /\ pc' = "c_patch"
              /\ UNCHANGED <<printed, ret>>
         ELSE /\ clear_raise
              /\ UNCHANGED lines
    /\ UNCHANGED <<menu_vars, env_vars, file_vars, params, apply_config,
                   selected_params, exit_status, root_checks>>

\* lines 228-231: empty the first assignment line
clear_patch ==
    /\ pc = "c_patch"
    /\ lines' = clear_lines(lines)
    /\ pc' = "c_write"
    /\ UNCHANGED <<menu_vars, env_vars, file_vars, params, ret, apply_config,
                   selected_params, printed, exit_status, root_checks>>

\* lines 234-235: f.writelines(lines)
clear_write ==
    /\ pc = "c_write"
    /\ \E ok \in BOOLEAN :
         IF ok
         THEN /\ grub' = writelines(lines)
              /\ grub_writes' = grub_writes + 1
              /\ pc' = "c_regen"
              /\ UNCHANGED <<printed, ret>>
         ELSE /\ clear_raise
              /\ UNCHANGED <<grub, grub_writes>>
    /\ UNCHANGED <<menu_vars, env_vars, backup, backup_exists, backup_writes,
                   regen_runs, params, lines, apply_config, selected_params,
                   exit_status, root_checks>>

\* lines 238-240: subprocess.run(["update-grub"], check=True); return True
clear_regen ==
    /\ pc = "c_regen"
    /\ regen_runs' = regen_runs + 1
    /\ \E ok \in BOOLEAN :
         IF ok
         THEN /\ ret' = TRUE
              /\ pc' = "c_return"
              /\ UNCHANGED printed
         ELSE clear_raise
    /\ UNCHANGED <<menu_vars, env_vars, grub, backup, backup_exists, grub_writes,
                   backup_writes, params, lines, apply_config, selected_params,
                   exit_status, root_checks>>

\* a report that repeats the failure line after the Clearer's own error
\* line on failure but stays silent on success
main_after_clear_silent ==
    /\ pc = "c_return"
    /\ IF ret
       THEN Exit(0) /\ UNCHANGED printed
       ELSE Say("failed_clear") /\ Exit(1)
    /\ UNCHANGED <<menu_vars, file_vars, call_vars, env_vars, apply_config,
                   selected_params, root_checks>>

\* lines 281-285: report the Clearer's result
main_after_clear ==
    /\ pc = "c_return"
    /\ IF ret
       THEN Say("cleared") /\ Exit(0)
       ELSE Say("failed_clear") /\ Exit(1)
    /\ UNCHANGED <<menu_vars, file_vars, call_vars, env_vars, apply_config,
                   selected_params, root_checks>>

(***************************************************************************)
(* The program.                                                            *)
(***************************************************************************)
Next ==
    \/ main_args
    \/ check_root
    \/ main_dispatch
    \/ \E key \in InputKeys : handle_input(key)
    \/ menu_interrupt
    \/ main_after_menu
    \/ main_apply
    \/ update_backup
    \/ update_read
    \/ update_patch
    \/ update_write
    \/ update_regen
    \/ main_after_update
    \/ clear_read
    \/ clear_patch
    \/ clear_write
    \/ clear_regen
    \/ main_after_clear

Spec == Init /\ [][Next]_vars

(***************************************************************************)
(* update_grub_config and clear_grub_config run alone, as functions of     *)
(* the file, the backup and the parameter string.                          *)
(***************************************************************************)
InitWriter ==
    /\ pc \in {"w_backup", "c_read"}
    /\ argv = <<"main.py", IF pc = "w_backup" THEN "enable" ELSE "disable">>
    /\ euid = 0
    /\ height = MaxHeight
    /\ grub \in Files
    /\ params \in (IF pc = "w_backup" THEN WriterParams ELSE {<<>>})
    /\ InitBackup
    /\ root_checks = 1
    /\ InitCommon

NextWriter ==
    \/ update_backup
    \/ update_read
    \/ update_patch
    \/ update_write
    \/ update_regen
    \/ clear_read
    \/ clear_patch
    \/ clear_write
    \/ clear_regen

SpecWriter == InitWriter /\ [][NextWriter]_vars

(***************************************************************************)
(* Vocabulary of the properties.                                           *)
(***************************************************************************)
\* the run was started with action a
ActionIs(a) == Len(argv) >= 2 /\ argv[2] = a

\* no catalog entry is selected
NoneSelected == \A k \in ParamKeys : ~selected[k]

\* the least index of a line that begins with the prefix, 0 when none does
FirstAssign(ls) ==
    IF \E i \in 1..Len(ls) : StartsWithPrefix(ls[i])
    THEN CHOOSE i \in 1..Len(ls) :
            /\ StartsWithPrefix(ls[i])
            /\ \A j \in 1..(i - 1) : ~StartsWithPrefix(ls[j])
    ELSE 0

\* every line but the first assignment line is where and what it was
OtherLinesKept(pre, post) ==
    /\ Len(post) = Len(pre)
    /\ \A j \in 1..Len(pre) : j # FirstAssign(pre) => post[j] = pre[j]

\* the template of key k with the core range put in, written out per key
SubstitutedTemplate(k, cr) ==
    CASE k = "isolcpus"          -> <<"isolcpus=">> \o cr
      [] k = "nohz_full"         -> <<"nohz_full=">> \o cr
      [] k = "rcu_nocbs"         -> <<"rcu_nocbs=">> \o cr
      [] k = "housekeeping"      -> <<"housekeeping=cpus:0">>
      [] k = "intel_pstate"      -> <<"intel_pstate=disable">>
      [] k = "nosmt"             -> <<"nosmt">>
      [] k = "intel_idle_cstate" -> <<"intel_idle.max_cstate=0">>
      [] k = "processor_cstate"  -> <<"processor.max_cstate=0">>
      [] k = "mitigations"       -> <<"mitigations=off">>
      [] k = "intel_iommu"       -> <<"intel_iommu=off">>
      [] k = "iommu"             -> <<"iommu=off">>

\* the selected keys in catalog order
SelectedInOrder(sel) == SelectSeq(PARAM_ORDER, LAMBDA k : sel[k])

\* texts with one space between neighbours
RECURSIVE SpaceSeparated(_)
SpaceSeparated(ts) ==
    IF ts = <<>> THEN <<>>
    ELSE IF Len(ts) = 1 THEN ts[1]
    ELSE ts[1] \o <<SP>> \o SpaceSeparated(Tail(ts))

ExpectedParams(sel, cr) ==
    SpaceSeparated([i \in 1..Len(SelectedInOrder(sel)) |->
                        SubstitutedTemplate(SelectedInOrder(sel)[i], cr)])

WriterPcs == {"w_backup", "w_read", "w_patch", "w_write", "w_regen", "w_return"}
ClearerPcs == {"c_read", "c_patch", "c_write", "c_regen", "c_return"}

(***************************************************************************)
(* C1. For every selection and every core range, get_selected_params()     *)
(* returns the templates of exactly the selected keys, in PARAM_ORDER      *)
(* order, with {CORES} replaced by the core range, joined by single        *)
(* spaces; the empty string when nothing is selected; and the call leaves  *)
(* the selection and the cursor as they were.                              *)
(***************************************************************************)
C1_SelectedParams ==
    [][(pc = "menu_return" /\ pc' = "got_params") =>
         /\ selected_params' = ExpectedParams(selected, core_range)
         /\ (NoneSelected => selected_params' = <<>>)
         /\ UNCHANGED <<selected, current, offset, core_range>>]_vars

C1_Witness ==
    /\ pc = "got_params"
    /\ core_range = <<"2", SP, CORES>>
    /\ selected["isolcpus"] /\ ~selected["nohz_full"] /\ selected["rcu_nocbs"]
    /\ ~selected["nosmt"] /\ selected["iommu"]
    /\ SubSeq(selected_params, 1, 5) = <<"isolcpus=", "2", SP, CORES, SP>>

(***************************************************************************)
(* C2. When update_grub_config has written the file, the file differs      *)
(* from what it was in one place: the first line with the prefix is        *)
(* replaced by the new assignment and every other line is kept; or, when   *)
(* no line has the prefix, one assignment line is appended and every       *)
(* existing line is kept.                                                  *)
(***************************************************************************)
C2_OneLineChanged ==
    (pc \in {"w_regen", "w_return"} /\ grub_writes = 1) =>
        LET pre == readlines(grub_pre)
            post == readlines(grub)
        IN  IF FirstAssign(pre) > 0
            THEN /\ OtherLinesKept(pre, post)
                 /\ post[FirstAssign(pre)] = AssignLine(params)
            ELSE post = pre \o <<AssignLine(params)>>

(***************************************************************************)
(* C3. In update_grub_config the backup precedes every change of the       *)
(* file: once the file is written the .backup exists and holds what the    *)
(* file held before; when the copy fails the file is as it was,            *)
(* update-grub is not run and the function returns False.                  *)
(***************************************************************************)
C3_BackupFirst ==
    pc \in WriterPcs =>
        /\ grub_writes > 0 => (backup_exists /\ backup = grub_pre)
        /\ backup_writes = 0 =>
              (grub = grub_pre /\ grub_writes = 0 /\ regen_runs = 0)
        /\ (pc = "w_return" /\ backup_writes = 0) => ret = FALSE

C3_Witness ==
    /\ pc = "w_return"
    /\ ret
    /\ grub_writes = 1
    /\ grub # grub_pre
    /\ backup = grub_pre

(***************************************************************************)
(* C4 as stated. After clear_grub_config() returns success the file holds  *)
(* the line GRUB_CMDLINE_LINUX_DEFAULT="", replaced or appended.           *)
(***************************************************************************)
C4_AlwaysAssigned ==
    (pc = "c_return" /\ ret) =>
        \E i \in 1..Len(readlines(grub)) : readlines(grub)[i] = AssignLine(<<>>)

(***************************************************************************)
(* C4 amended. After clear_grub_config() returns success: when a line      *)
(* with the prefix existed, the first one is GRUB_CMDLINE_LINUX_DEFAULT="" *)
(* whatever its value was; when none existed, the file is what it was and  *)
(* no line is appended.                                                    *)
(***************************************************************************)
C4_ClearedOrUnchanged ==
    (pc = "c_return" /\ ret) =>
        LET pre == readlines(grub_pre)
            post == readlines(grub)
        IN  IF FirstAssign(pre) > 0
            THEN /\ Len(post) = Len(pre)
                 /\ post[FirstAssign(pre)] = AssignLine(<<>>)
            ELSE grub = grub_pre

C4_Witness ==
    /\ pc = "c_return"
    /\ ret
    /\ FirstAssign(readlines(grub_pre)) > 0
    /\ readlines(grub_pre)[FirstAssign(readlines(grub_pre))] = <<PFX, TXT, NL>>
    /\ grub # grub_pre

Refused ==
    \/ Len(argv) < 2
    \/ euid # 0
    \/ argv[2] \notin {"enable", "disable"}

C6_RefusedRuns ==
    /\ Refused =>
          /\ pc \in {"main", "check_root", "dispatch", "exit"}
          /\ pc = "exit" => exit_status = 1
          /\ pc # "exit" => ENABLED Next
          /\ grub = grub_pre
          /\ grub_writes = 0 /\ backup_writes = 0 /\ regen_runs = 0
          /\ backup \in {<<>>, OldBackup}
    /\ root_checks <= 1
    /\ Len(argv) < 2 => root_checks = 0
    /\ pc \in {"main", "check_root"} => root_checks = 0
    /\ pc \in {"dispatch", "menu", "menu_return", "got_params"}
             \cup WriterPcs \cup ClearerPcs
          => (root_checks = 1 /\ euid = 0)

C6_Witness ==
    /\ pc = "exit"
    /\ ActionIs("disable")
    /\ euid # 0
    /\ root_checks = 1
    /\ exit_status = 1
    /\ FirstAssign(readlines(grub)) > 0

(***************************************************************************)
(* C7. In the enable flow, with every entry toggled off and Apply          *)
(* confirmed, get_selected_params() is the empty string and the Writer is  *)
(* skipped: file and backup untouched, update-grub not run, the message    *)
(* "no parameters selected" printed, exit status 0.                        *)
(***************************************************************************)
C7_EmptySelection ==
    (NoneSelected /\ apply_config) =>
        /\ pc \in {"menu_return", "got_params", "exit"}
        /\ pc = "got_params" => selected_params = <<>>
        /\ pc = "exit" => (exit_status = 0 /\ printed = <<"no_params">>)
        /\ grub = grub_pre
        /\ grub_writes = 0 /\ backup_writes = 0 /\ regen_runs = 0

C7_Witness ==
    /\ NoneSelected
    /\ apply_config
    /\ pc = "exit"
    /\ exit_status = 0
    /\ printed = <<"no_params">>

(***************************************************************************)
(* C8 as stated. On every path that ends the process exactly one status    *)
(* line has been printed.                                                  *)
(***************************************************************************)
C8_ExactlyOneLine == pc = "exit" => Len(printed) = 1

(***************************************************************************)
(* C8 amended. On every path that ends the process at least one status     *)
(* line has been printed: exactly one on a usage error, a privilege error, *)
(* an invalid action, a cancelled menu, an interrupted menu, an empty      *)
(* selection and a Clearer success; two on a Writer success (the           *)
(* parameters being applied, then the success line) and on a Clearer       *)
(* failure (the error with its cause, then the failure line); three on a   *)
(* Writer failure (the parameters, the error, the failure line).           *)
(***************************************************************************)
C8_StatusLines ==
    pc = "exit" =>
        printed \in
          {<<"usage">>, <<"root_error">>, <<"invalid_action">>,
           <<"cancelled">>, <<"cancelled_interrupt">>, <<"no_params">>,
           <<"cleared">>,
           <<"applying", "installed">>,
           <<"error_clearing", "failed_clear">>,
           <<"applying", "error_updating", "failed_update">>}

C8_Witness ==
    /\ pc = "exit"
    /\ exit_status = 1
    /\ printed = <<"applying", "error_updating", "failed_update">>

(***************************************************************************)
(* C9. With a terminal of fixed height that leaves menu_height >= 1 rows,  *)
(* in every state of handle_input the focus is in [0, N], each key moves   *)
(* it by at most one step, the focused row is inside the window            *)
(* (offset <= current < offset + menu_height), and the offset changes      *)
(* only on a move that would take the focus outside the window.            *)
(***************************************************************************)
C9_InWindow ==
    MenuHeight >= 1 =>
        /\ current \in 0..N
        /\ offset <= current
        /\ current < offset + MenuHeight

C9_Move ==
    (MenuHeight >= 1 /\ pc = "menu") =>
        /\ current' - current \in {-1, 0, 1}
        /\ offset' # offset =>
              /\ current' # current
              /\ (current' < offset \/ current' >= offset + MenuHeight)

C9_CursorWindow == []C9_InWindow /\ [][C9_Move]_vars

C9_Witness ==
    /\ pc = "menu"
    /\ MenuHeight = 2
    /\ current = N
    /\ offset = N - 1

(***************************************************************************)
(* C10. handle_input returns in two ways only: Enter on the Apply row      *)
(* returns True, q/Q returns False from every row.  Enter on a parameter   *)
(* row changes nothing and stays in the menu.  The selection is changed    *)
(* by Space on a parameter row only, which flips the focused entry alone   *)
(* and leaves the focus where it was.                                      *)
(***************************************************************************)
C10_MenuStep ==
    pc = "menu" =>
        /\ pc' = "menu_return" =>
              \/ /\ apply_config'
                 /\ current = N
                 /\ \E k \in {"\n", "KEY_ENTER"} : handle_input(k)
              \/ /\ ~apply_config'
                 /\ \E k \in {"q", "Q"} : handle_input(k)
        /\ \A k \in {"q", "Q"} :
              handle_input(k) => (pc' = "menu_return" /\ ~apply_config')
        /\ \A k \in {"\n", "KEY_ENTER"} :
              (handle_input(k) /\ current = N) =>
                  (pc' = "menu_return" /\ apply_config')
        /\ \A k \in {"\n", "KEY_ENTER"} :
              (handle_input(k) /\ current < N) => UNCHANGED vars
        /\ pc' = "menu_return" => UNCHANGED <<selected, current, offset>>
        /\ selected' # selected =>
              /\ handle_input(" ")
              /\ current < N
              /\ selected' = [selected EXCEPT ![PARAM_ORDER[current + 1]] = ~@]
              /\ UNCHANGED <<current, offset, pc>>
        /\ (handle_input(" ") /\ current < N) =>
              selected'[PARAM_ORDER[current + 1]] = ~selected[PARAM_ORDER[current + 1]]

C10_MenuExits == [][C10_MenuStep]_vars

C10_Witness ==
    /\ pc = "menu_return"
    /\ apply_config
    /\ current = N
    /\ ~selected["nosmt"]
    /\ selected["iommu"]

====
